---- MODULE Spec2Model ----
(***************************************************************************)
(* A model of the typosquatting risk analyzer (src/main.py).               *)
(*                                                                         *)
(* Strings are sequences of one-character strings.  A similarity ratio is  *)
(* the exact rational [num, den] of the float 2.0 * matches / length that  *)
(* difflib computes: IEEE division is correctly rounded and monotone, so   *)
(* for the small numerators and denominators that occur here comparing two *)
(* such floats, or one with a parsed decimal threshold, agrees with        *)
(* comparing the rationals.                                                *)
(***************************************************************************)
EXTENDS Integers, Sequences, FiniteSets, TLC

VARIABLES
    pc,                  \* position of the run
    args,                \* argparse namespace: threshold, top_packages
    file,                \* the manifest on disk: [status, content]
    open_calls,          \* how many times open(requirements_file) was called
    dependencies,        \* analyze_dependencies: names read from the manifest
    popular_packages,    \* analyze_dependencies: the reference list in use
    di, pj,              \* positions of the two nested for loops
    sim_calls,           \* how many times calculate_similarity was called
    typosquatting_risks, \* analyze_dependencies: findings so far
    stdout,              \* lines printed with print()
    log,                 \* records handed to logging
    exit_code,           \* -1 while running, else the process exit status
    a, b,                \* arguments of the last calculate_similarity call
    ratio,               \* its result
    top_n                \* argument of a direct get_top_pypi_packages call

vars == <<pc, args, file, open_calls, dependencies, popular_packages, di, pj,
          sim_calls, typosquatting_risks, stdout, log, exit_code, a, b, ratio,
          top_n>>

(***************************************************************************)
(* Bounds of the model.                                                    *)
(***************************************************************************)
MaxStrLen == 3        \* longest string handed to calculate_similarity alone
MaxFileLen == 4       \* longest manifest content, in characters, parsed alone
MaxTopN == 60         \* largest count handed to get_top_pypi_packages alone
MaxManifestLines == 2 \* most lines of a manifest in a whole run

(***************************************************************************)
(* Strings                                                                 *)
(***************************************************************************)
Strings(alphabet, n) == UNION {[1..k -> alphabet] : k \in 0..n}

Min(x, y) == IF x <= y THEN x ELSE y

Max(x, y) == IF x >= y THEN x ELSE y

\* s[lo:hi] with 0 <= lo, hi (Python's half-open slice, 0-based offsets)
Slice(s, lo, hi) ==
    LET h == Min(hi, Len(s))
    IN  IF lo >= h THEN <<>> ELSE [k \in 1..(h - lo) |-> s[lo + k]]

RECURSIVE Concat(_)
Concat(ss) == IF ss = <<>> THEN <<>> ELSE Head(ss) \o Concat(Tail(ss))

UpperCase == <<"A","B","C","D","E","F","G","H","I","J","K","L","M",
               "N","O","P","Q","R","S","T","U","V","W","X","Y","Z">>

LowerCase == <<"a","b","c","d","e","f","g","h","i","j","k","l","m",
               "n","o","p","q","r","s","t","u","v","w","x","y","z">>

\* str.lower(), on the ASCII letters
lower(s) ==
    [k \in 1..Len(s) |->
        IF \E u \in 1..26 : UpperCase[u] = s[k]
        THEN LowerCase[CHOOSE u \in 1..26 : UpperCase[u] = s[k]]
        ELSE s[k]]

\* the characters str.strip() removes (the ASCII whitespace)
Whitespace == {" ", "\t", "\n", "\r", "\f"}

\* str.strip()
strip(s) ==
    LET keep == {k \in 1..Len(s) : s[k] \notin Whitespace}
    IN  IF keep = {} THEN <<>>
        ELSE LET first == CHOOSE k \in keep : \A m \in keep : k <= m
                 last  == CHOOSE k \in keep : \A m \in keep : k >= m
             IN  Slice(s, first - 1, last)

\* str.startswith(prefix)
startswith(s, prefix) ==
    Len(s) >= Len(prefix) /\ Slice(s, 0, Len(prefix)) = prefix

\* s.split("==")[0]: what stands before the first "==", or all of s
split_eqeq_0(s) ==
    LET at == {k \in 1..(Len(s) - 1) : s[k] = "=" /\ s[k + 1] = "="}
    IN  IF at = {} THEN s
        ELSE Slice(s, 0, (CHOOSE k \in at : \A m \in at : k <= m) - 1)

(***************************************************************************)
(* difflib.SequenceMatcher(None, a, b).ratio(), for len(b) < 200 (below    *)
(* that length difflib treats no character as junk or as popular).         *)
(***************************************************************************)
\* length of the longest common run of x[i:ahi] and y[j:bhi] starting at i, j
RECURSIVE CommonRun(_, _, _, _, _, _)
CommonRun(x, y, i, j, ahi, bhi) ==
    IF i < ahi /\ j < bhi /\ x[i + 1] = y[j + 1]
    THEN 1 + CommonRun(x, y, i + 1, j + 1, ahi, bhi)
    ELSE 0

\* find_longest_match(alo, ahi, blo, bhi): the longest block, of those the
\* one starting earliest in x, of those the one starting earliest in y
find_longest_match(x, y, alo, ahi, blo, bhi) ==
    LET starts == (alo..(ahi - 1)) \X (blo..(bhi - 1))
        run(p) == CommonRun(x, y, p[1], p[2], ahi, bhi)
        sizes  == {run(p) : p \in starts}
        k      == IF sizes = {} THEN 0
                  ELSE CHOOSE m \in sizes : \A n \in sizes : m >= n
        best   == {p \in starts : run(p) = k}
        first  == CHOOSE p \in best :
                      \A q \in best : p[1] < q[1] \/ (p[1] = q[1] /\ p[2] <= q[2])
    IN  IF k = 0 THEN <<alo, blo, 0>> ELSE <<first[1], first[2], k>>

\* get_matching_blocks(): total size of the blocks found by taking the
\* longest match and recursing on what lies left and right of it
RECURSIVE matches(_, _, _, _, _, _)
matches(x, y, alo, ahi, blo, bhi) ==
    LET m == find_longest_match(x, y, alo, ahi, blo, bhi)
        i == m[1]
        j == m[2]
        k == m[3]
    IN  IF k = 0 THEN 0
        ELSE k
             + (IF alo < i /\ blo < j THEN matches(x, y, alo, i, blo, j) ELSE 0)
             + (IF i + k < ahi /\ j + k < bhi
                THEN matches(x, y, i + k, ahi, j + k, bhi) ELSE 0)

\* a ratio that forgets to count a match on both sides
calculate_ratio_halved(m, length) ==
    IF length > 0 THEN [num |-> m, den |-> length]
    ELSE [num |-> 1, den |-> 1]

\* a ratio that guards the division but yields 0.0 for two empty strings
calculate_ratio_empty_zero(m, length) == [num |-> 2 * m, den |-> Max(length, 1)]

\* _calculate_ratio(matches, length): 1.0 when both strings are empty
calculate_ratio(m, length) ==
    IF length > 0 THEN [num |-> 2 * m, den |-> length]
    ELSE [num |-> 1, den |-> 1]

\* a ratio over twice the first length
calculate_similarity_first_len(x, y) ==
    calculate_ratio(matches(x, y, 0, Len(x), 0, Len(y)), Len(x) + Len(x))

calculate_similarity(x, y) ==
    calculate_ratio(matches(x, y, 0, Len(x), 0, Len(y)), Len(x) + Len(y))

\* p >= q, p = q on ratios
RatioGeq(p, q) == p.num * q.den >= q.num * p.den

RatioEq(p, q) == p.num * q.den = q.num * p.den

(***************************************************************************)
(* get_top_pypi_packages                                                   *)
(***************************************************************************)
popular_packages_list ==
    << <<"r","e","q","u","e","s","t","s">>,
       <<"n","u","m","p","y">>,
       <<"p","a","n","d","a","s">>,
       <<"d","j","a","n","g","o">>,
       <<"f","l","a","s","k">>,
       <<"t","e","n","s","o","r","f","l","o","w">>,
       <<"t","o","r","c","h">>,
       <<"s","c","i","k","i","t","-","l","e","a","r","n">>,
       <<"m","a","t","p","l","o","t","l","i","b">>,
       <<"b","e","a","u","t","i","f","u","l","s","o","u","p","4">>,
       <<"p","y","t","e","s","t">>,
       <<"s","q","l","a","l","c","h","e","m","y">>,
       <<"c","e","l","e","r","y">>,
       <<"s","c","r","a","p","y">>,
       <<"t","o","r","n","a","d","o">>,
       <<"a","i","o","h","t","t","p">>,
       <<"g","u","n","i","c","o","r","n">>,
       <<"p","s","y","c","o","p","g","2">>,
       <<"r","e","d","i","s">>,
       <<"b","o","t","o","3">> >>

\* s[:n] for any integer n: a negative n counts from the end
SliceTo(s, n) ==
    IF n >= 0 THEN Slice(s, 0, n) ELSE Slice(s, 0, Max(Len(s) + n, 0))

\* a slice that stops one entry early
get_top_pypi_packages_short(n) == SliceTo(popular_packages_list, n - 1)

get_top_pypi_packages(n) == SliceTo(popular_packages_list, n)

(***************************************************************************)
(* Reading the manifest (the list comprehension of analyze_dependencies)   *)
(***************************************************************************)
\* iterating a text file: each line keeps its "\n", the last may lack one
RECURSIVE readlines(_)
readlines(content) ==
    IF content = <<>> THEN <<>>
    ELSE LET nl == {k \in 1..Len(content) : content[k] = "\n"}
         IN  IF nl = {} THEN <<content>>
             ELSE LET k == CHOOSE m \in nl : \A n \in nl : m <= n
                  IN  <<Slice(content, 0, k)>>
                          \o readlines(Slice(content, k, Len(content)))

\* the comprehension's condition: line.strip() and not line.startswith("#")
keep_line(line) == strip(line) # <<>> /\ ~startswith(line, <<"#">>)

\* the comprehension's element: line.strip().split("==")[0]
dependency_name(line) == split_eqeq_0(strip(line))

RECURSIVE parse_lines(_)
parse_lines(lines) ==
    IF lines = <<>> THEN <<>>
    ELSE (IF keep_line(Head(lines)) THEN <<dependency_name(Head(lines))>>
          ELSE <<>>) \o parse_lines(Tail(lines))

read_dependencies(content) == parse_lines(readlines(content))

(***************************************************************************)
(* Printing                                                                *)
(***************************************************************************)
Digits == <<"0","1","2","3","4","5","6","7","8","9">>

\* f"{similarity:.2f}" of a ratio in [0, 1]: the value in hundredths, rounded
\* half to even.  A tie needs a ratio with denominator 8 in lowest terms, a
\* float that is exact, as long as len(a) + len(b) < 80.
format_2f(r) ==
    LET n   == 100 * r.num
        fl  == n \div r.den
        rem == n - fl * r.den
        h   == IF 2 * rem > r.den \/ (2 * rem = r.den /\ fl % 2 = 1)
               THEN fl + 1 ELSE fl
    IN  <<Digits[(h \div 100) + 1], ".", Digits[((h \div 10) % 10) + 1],
          Digits[(h % 10) + 1]>>

\* a printed line is the sequence of the pieces it is made of
HeaderLine == <<"Potential typosquatting risks found:">>

NoRisksLine == <<"No potential typosquatting risks found.">>

FindingLine(risk) ==
    <<"  Dependency: ">> \o risk[1] \o <<", Similar to: ">> \o risk[2]
        \o <<", Similarity: ">> \o format_2f(risk[3])

RiskLines(risks) == [k \in 1..Len(risks) |-> FindingLine(risks[k])]

\* the no-risks line printed without its else
report_lines_no_else(risks) ==
    (IF risks # <<>> THEN <<HeaderLine>> \o RiskLines(risks) ELSE <<>>)
        \o <<NoRisksLine>>

\* main's final if/else
report_lines(risks) ==
    IF risks # <<>> THEN <<HeaderLine>> \o RiskLines(risks) ELSE <<NoRisksLine>>

(***************************************************************************)
(* The conditions of main and analyze_dependencies                         *)
(***************************************************************************)
Zero == [num |-> 0, den |-> 1]

One == [num |-> 1, den |-> 1]

\* 0 <= args.threshold <= 1
threshold_ok(t) == RatioGeq(t, Zero) /\ RatioGeq(One, t)

\* a check that lets 0 through
top_packages_ok_negative_only(n) == ~(n < 0)

\* not (args.top_packages <= 0)
top_packages_ok(n) == ~(n <= 0)

\* an exclusive boundary
is_risk_strict(similarity, threshold) ==
    RatioGeq(similarity, threshold) /\ ~RatioEq(similarity, threshold)

\* similarity >= threshold
is_risk(similarity, threshold) == RatioGeq(similarity, threshold)

\* what open() or the iteration over the file raises, "" when nothing
raised(f) ==
    CASE f.status = "missing"     -> "FileNotFoundError"
      [] f.status = "denied"      -> "PermissionError"
      [] f.status = "undecodable" -> "UnicodeDecodeError"
      [] OTHER                    -> ""

\* only the first except clause
caught_not_found_only(exc) == exc = "FileNotFoundError"

\* the two except clauses: FileNotFoundError, then Exception
caught(exc) ==
    exc = "FileNotFoundError"
        \/ exc \in {"FileNotFoundError", "PermissionError", "UnicodeDecodeError"}

(***************************************************************************)
(* The inputs of a run                                                     *)
(***************************************************************************)
Thresholds ==
    { [num |-> 0 - 1, den |-> 10], Zero, [num |-> 4, den |-> 5], One,
      [num |-> 3, den |-> 2] }

TopChoices == {0 - 1, 0, 2, 20, 25}

SampleLines ==
    { <<"n","u","m","p","y">>,
      <<"R","e","q","e","u","s","t","s","=","=","2",".","0">>,
      <<"#"," ","f","o","o">>,
      <<"n","u","n","p","y">>,
      <<>> }

Manifests ==
    { Concat([k \in 1..Len(ls) |-> ls[k] \o <<"\n">>]) :
        ls \in Strings(SampleLines, MaxManifestLines) }

Files ==
    {[status |-> "ok", content |-> c] : c \in Manifests}
        \cup {[status |-> s, content |-> <<>>] :
                 s \in {"missing", "denied", "undecodable"}}

SimAlphabet == {"a", "b", "c"}

FileAlphabet == {" ", "\t", "#", "=", "a", "\n"}

(***************************************************************************)
(* A run of main                                                           *)
(***************************************************************************)
Init ==
    /\ pc = "main"
    /\ args \in [threshold : Thresholds, top_packages : TopChoices]
    /\ file \in Files
    /\ open_calls = 0
    /\ dependencies = <<>>
    /\ popular_packages = <<>>
    /\ di = 0
    /\ pj = 0
    /\ sim_calls = 0
    /\ typosquatting_risks = <<>>
    /\ stdout = <<>>
    /\ log = <<>>
    /\ exit_code = 0 - 1
    /\ a = <<>>
    /\ b = <<>>
    /\ ratio = Zero
    /\ top_n = 0

\* if not 0 <= args.threshold <= 1: logging.error(...); sys.exit(1)
RejectThreshold ==
    /\ pc = "main"
    /\ ~threshold_ok(args.threshold)
    /\ log' = Append(log, <<"ERROR", "Threshold must be between 0 and 1.">>)
    /\ exit_code' = 1
    /\ pc' = "exited"
    /\ UNCHANGED <<args, file, open_calls, dependencies, popular_packages, di,
                   pj, sim_calls, typosquatting_risks, stdout, a, b, ratio,
                   top_n>>

\* if args.top_packages <= 0: logging.error(...); sys.exit(1)
RejectTopPackages ==
    /\ pc = "main"
    /\ threshold_ok(args.threshold)
    /\ ~top_packages_ok(args.top_packages)
    /\ log' = Append(log, <<"ERROR", "Number of top packages must be positive.">>)
    /\ exit_code' = 1
    /\ pc' = "exited"
    /\ UNCHANGED <<args, file, open_calls, dependencies, popular_packages, di,
                   pj, sim_calls, typosquatting_risks, stdout, a, b, ratio,
                   top_n>>

\* both checks pass: logging.info(...), then analyze_dependencies is called
Accept ==
    /\ pc = "main"
    /\ threshold_ok(args.threshold)
    /\ top_packages_ok(args.top_packages)
    /\ log' = Append(log, <<"INFO", "Analyzing dependencies">>)
    /\ pc' = "analyze"
    /\ UNCHANGED <<args, file, open_calls, dependencies, popular_packages, di,
                   pj, sim_calls, typosquatting_risks, stdout, exit_code, a, b,
                   ratio, top_n>>

\* the try block: open the manifest and read the dependencies
ReadManifest ==
    /\ pc = "analyze"
    /\ raised(file) = ""
    /\ open_calls' = open_calls + 1
    /\ dependencies' = read_dependencies(file.content)
    /\ pc' = "top"
    /\ UNCHANGED <<args, file, popular_packages, di, pj, sim_calls,
                   typosquatting_risks, stdout, log, exit_code, a, b, ratio,
                   top_n>>

\* the try block raises: an except clause logs and returns [], or, were the
\* exception not caught, it would leave main with a traceback and status 1
ManifestFails ==
    /\ pc = "analyze"
    /\ raised(file) # ""
    /\ open_calls' = open_calls + 1
    /\ IF caught(raised(file))
       THEN /\ log' = Append(log,
                        IF raised(file) = "FileNotFoundError"
                        THEN <<"ERROR", "Requirements file not found">>
                        ELSE <<"ERROR", "Error reading requirements file">>)
            /\ pc' = "report"
            /\ exit_code' = exit_code
       ELSE /\ log' = log
            /\ pc' = "crashed"
            /\ exit_code' = 1
    /\ UNCHANGED <<args, file, dependencies, popular_packages, di, pj,
                   sim_calls, typosquatting_risks, stdout, a, b, ratio, top_n>>

\* popular_packages = get_top_pypi_packages(top_packages)
GetPopular ==
    /\ pc = "top"
    /\ popular_packages' = get_top_pypi_packages(args.top_packages)
    /\ di' = 1
    /\ pj' = 1
    /\ pc' = "loop"
    /\ UNCHANGED <<args, file, open_calls, dependencies, sim_calls,
                   typosquatting_risks, stdout, log, exit_code, a, b, ratio,
                   top_n>>

LoopDone == di > Len(dependencies) \/ popular_packages = <<>>

\* one pass of the inner loop body
Compare ==
    /\ pc = "loop"
    /\ ~LoopDone
    /\ a' = lower(dependencies[di])
    /\ b' = lower(popular_packages[pj])
    /\ ratio' = calculate_similarity(a', b')
    /\ sim_calls' = sim_calls + 1
    /\ typosquatting_risks' =
          IF is_risk(ratio', args.threshold)
          THEN Append(typosquatting_risks,
                      <<dependencies[di], popular_packages[pj], ratio'>>)
          ELSE typosquatting_risks
    /\ IF pj < Len(popular_packages)
       THEN di' = di /\ pj' = pj + 1
       ELSE di' = di + 1 /\ pj' = 1
    /\ UNCHANGED <<pc, args, file, open_calls, dependencies, popular_packages,
                   stdout, log, exit_code, top_n>>

\* return typosquatting_risks
Return ==
    /\ pc = "loop"
    /\ LoopDone
    /\ pc' = "report"
    /\ UNCHANGED <<args, file, open_calls, dependencies, popular_packages, di,
                   pj, sim_calls, typosquatting_risks, stdout, log, exit_code,
                   a, b, ratio, top_n>>

\* main prints the result and returns
Report ==
    /\ pc = "report"
    /\ stdout' = stdout \o report_lines(typosquatting_risks)
    /\ exit_code' = 0
    /\ pc' = "done"
    /\ UNCHANGED <<args, file, open_calls, dependencies, popular_packages, di,
                   pj, sim_calls, typosquatting_risks, log, a, b, ratio, top_n>>

Next ==
    \/ RejectThreshold
    \/ RejectTopPackages
    \/ Accept
    \/ ReadManifest
    \/ ManifestFails
    \/ GetPopular
    \/ Compare
    \/ Return
    \/ Report

Spec == Init /\ [][Next]_vars

(***************************************************************************)
(* calculate_similarity on its own                                         *)
(***************************************************************************)
InitSim ==
    /\ pc = "sim"
    /\ a \in Strings(SimAlphabet, MaxStrLen)
    /\ b \in Strings(SimAlphabet, MaxStrLen)
    /\ ratio = Zero
    /\ args = [threshold |-> [num |-> 4, den |-> 5], top_packages |-> 20]
    /\ file = [status |-> "ok", content |-> <<>>]
    /\ open_calls = 0
    /\ dependencies = <<>>
    /\ popular_packages = <<>>
    /\ di = 0
    /\ pj = 0
    /\ sim_calls = 0
    /\ typosquatting_risks = <<>>
    /\ stdout = <<>>
    /\ log = <<>>
    /\ exit_code = 0 - 1
    /\ top_n = 0

CallSimilarity ==
    /\ pc = "sim"
    /\ ratio' = calculate_similarity(a, b)
    /\ sim_calls' = sim_calls + 1
    /\ pc' = "sim_done"
    /\ UNCHANGED <<args, file, open_calls, dependencies, popular_packages, di,
                   pj, typosquatting_risks, stdout, log, exit_code, a, b, top_n>>

NextSim == CallSimilarity

SpecSim == InitSim /\ [][NextSim]_vars

(***************************************************************************)
(* get_top_pypi_packages on its own                                        *)
(***************************************************************************)
InitTop ==
    /\ pc = "top_call"
    /\ top_n \in (0 - MaxTopN)..MaxTopN
    /\ popular_packages = <<>>
    /\ args = [threshold |-> [num |-> 4, den |-> 5], top_packages |-> 20]
    /\ file = [status |-> "ok", content |-> <<>>]
    /\ open_calls = 0
    /\ dependencies = <<>>
    /\ di = 0
    /\ pj = 0
    /\ sim_calls = 0
    /\ typosquatting_risks = <<>>
    /\ stdout = <<>>
    /\ log = <<>>
    /\ exit_code = 0 - 1
    /\ a = <<>>
    /\ b = <<>>
    /\ ratio = Zero

CallTop ==
    /\ pc = "top_call"
    /\ popular_packages' = get_top_pypi_packages(top_n)
    /\ pc' = "top_done"
    /\ UNCHANGED <<args, file, open_calls, dependencies, di, pj, sim_calls,
                   typosquatting_risks, stdout, log, exit_code, a, b, ratio,
                   top_n>>

NextTop == CallTop

SpecTop == InitTop /\ [][NextTop]_vars

(***************************************************************************)
(* The manifest reader on its own                                          *)
(***************************************************************************)
InitParse ==
    /\ pc = "parse"
    /\ file \in {[status |-> "ok", content |-> c] :
                    c \in Strings(FileAlphabet, MaxFileLen)}
    /\ dependencies = <<>>
    /\ args = [threshold |-> [num |-> 4, den |-> 5], top_packages |-> 20]
    /\ open_calls = 0
    /\ popular_packages = <<>>
    /\ di = 0
    /\ pj = 0
    /\ sim_calls = 0
    /\ typosquatting_risks = <<>>
    /\ stdout = <<>>
    /\ log = <<>>
    /\ exit_code = 0 - 1
    /\ a = <<>>
    /\ b = <<>>
    /\ ratio = Zero
    /\ top_n = 0

CallRead ==
    /\ pc = "parse"
    /\ open_calls' = open_calls + 1
    /\ dependencies' = read_dependencies(file.content)
    /\ pc' = "parse_done"
    /\ UNCHANGED <<args, file, popular_packages, di, pj, sim_calls,
                   typosquatting_risks, stdout, log, exit_code, a, b, ratio,
                   top_n>>

NextParse == CallRead

SpecParse == InitParse /\ [][NextParse]_vars

(***************************************************************************)
(* Properties                                                              *)
(***************************************************************************)
ConfigValid ==
    /\ args.threshold.num >= 0
    /\ args.threshold.num <= args.threshold.den
    /\ args.top_packages > 0

PairBefore(p, q) == p[1] < q[1] \/ (p[1] = q[1] /\ p[2] < q[2])

Numpy == <<"n","u","m","p","y">>

\* C1: once analyze_dependencies has returned for a manifest that was read,
\* its findings are exactly the pairs (i, j) of dependency i and reference j
\* among the first n with similarity(lower(dep_i), lower(ref_j)) >= threshold,
\* one finding (dependency as read, reference, score) each, ordered by i and
\* then by j.
C1_FindingsAreTheHits ==
    (pc \in {"report", "done"} /\ file.status = "ok") =>
        LET n       == Min(args.top_packages, Len(popular_packages_list))
            score(p) == calculate_similarity(lower(dependencies[p[1]]),
                                             lower(popular_packages_list[p[2]]))
            hits    == {p \in (1..Len(dependencies)) \X (1..n) :
                           RatioGeq(score(p), args.threshold)}
            rank(p) == Cardinality({q \in hits : PairBefore(q, p)}) + 1
        IN  /\ Len(typosquatting_risks) = Cardinality(hits)
            /\ \A p \in hits :
                  /\ typosquatting_risks[rank(p)][1] = dependencies[p[1]]
                  /\ typosquatting_risks[rank(p)][2] = popular_packages_list[p[2]]
                  /\ RatioEq(typosquatting_risks[rank(p)][3], score(p))

\* a finished run whose manifest names the same dependency twice, each entry
\* reported with a score equal to the threshold
C1_Witness ==
    /\ pc = "done"
    /\ Len(dependencies) = 2
    /\ dependencies[1] = dependencies[2]
    /\ Len(typosquatting_risks) = 2
    /\ RatioEq(typosquatting_risks[1][3], args.threshold)
    /\ typosquatting_risks[1][1] = typosquatting_risks[2][1]

\* C2: with a threshold outside [0, 1] or a top-packages value <= 0 the run
\* can only exit with code 1: the manifest is never opened, no similarity is
\* computed and nothing is printed to stdout.
C2_BadConfigExitsBeforeAnyWork ==
    ~ConfigValid =>
        /\ open_calls = 0
        /\ sim_calls = 0
        /\ stdout = <<>>
        /\ pc \in {"main", "exited"}
        /\ pc = "main" => (exit_code = 0 - 1
                            /\ ENABLED (RejectThreshold \/ RejectTopPackages))
        /\ pc = "exited" => exit_code = 1

\* a run rejected for its reference count alone, beside a readable manifest
C2_Witness ==
    /\ pc = "exited"
    /\ exit_code = 1
    /\ args.top_packages = 0
    /\ args.threshold = [num |-> 4, den |-> 5]
    /\ file.status = "ok"
    /\ file.content # <<>>

\* C3: with a valid configuration and a manifest that is missing or cannot be
\* read, analyze_dependencies logs an error and returns no finding, and main
\* prints exactly the no-risks line and ends with exit code 0.
C3_UnreadableManifestIsNoRisks ==
    (ConfigValid /\ file.status # "ok") =>
        /\ pc \in {"main", "analyze", "report", "done"}
        /\ typosquatting_risks = <<>>
        /\ sim_calls = 0
        /\ pc \in {"report", "done"} =>
              \E k \in 1..Len(log) : log[k][1] = "ERROR"
        /\ pc = "done" => (stdout = <<NoRisksLine>> /\ exit_code = 0)
        /\ pc # "done" => (stdout = <<>> /\ exit_code = 0 - 1)
        /\ pc # "done" => ENABLED (Accept \/ ManifestFails \/ Report)

\* a finished run whose manifest could not be opened for lack of permission
C3_Witness ==
    /\ pc = "done"
    /\ file.status = "denied"
    /\ open_calls = 1
    /\ stdout = <<NoRisksLine>>

\* a step of the run is possible
CanStep ==
    \/ ENABLED (Accept \/ ManifestFails \/ GetPopular \/ Return \/ Report)
    \/ (pc = "analyze" /\ raised(file) = "")
    \/ (pc = "loop" /\ ~LoopDone)

\* C4: a run with a valid configuration ends with exit code 0, and its stdout
\* is the header followed by one line per finding, in the findings' order, when
\* there are findings, and the single no-risks line when there are none.
C4_StdoutIsHeaderAndFindingsOrNoRisks ==
    ConfigValid =>
        /\ pc \notin {"exited", "crashed"}
        /\ pc # "done" => (stdout = <<>> /\ exit_code = 0 - 1 /\ CanStep)
        /\ pc = "done" =>
              /\ exit_code = 0
              /\ IF typosquatting_risks # <<>>
                 THEN /\ Len(stdout) = Len(typosquatting_risks) + 1
                      /\ stdout[1] = HeaderLine
                      /\ \A k \in 1..Len(typosquatting_risks) :
                            stdout[k + 1] = FindingLine(typosquatting_risks[k])
                      /\ \A k \in 1..Len(stdout) : stdout[k] # NoRisksLine
                 ELSE stdout = <<NoRisksLine>>

\* a finished run that printed the header and findings of two dependencies
C4_Witness ==
    /\ pc = "done"
    /\ Len(stdout) >= 3
    /\ stdout[1] = HeaderLine
    /\ typosquatting_risks[1][1] # typosquatting_risks[Len(typosquatting_risks)][1]

C6_RatioInUnitInterval ==
    pc = "sim_done" =>
        /\ ratio.den > 0
        /\ 0 <= ratio.num
        /\ ratio.num <= ratio.den
        /\ (a = <<>> /\ b = <<>>) => ratio.num = ratio.den
        /\ (a = <<>> /\ b # <<>>) => ratio.num = 0
        /\ (a # <<>> /\ b = <<>>) => ratio.num = 0

\* the similarity of two empty strings has been computed
C6_Witness ==
    /\ pc = "sim_done"
    /\ a = <<>>
    /\ b = <<>>
    /\ ratio.num = ratio.den

\* C7: for n >= 0, get_top_pypi_packages(n) is the first min(n, 20) entries of
\* the list in their order: all of it for n >= 20, nothing for n = 0
C7_TopIsPrefix ==
    (pc = "top_done" /\ top_n >= 0) =>
        /\ Len(popular_packages) = Min(top_n, Len(popular_packages_list))
        /\ \A k \in 1..Len(popular_packages) :
              popular_packages[k] = popular_packages_list[k]
        /\ top_n >= Len(popular_packages_list) =>
              popular_packages = popular_packages_list
        /\ top_n = 0 => popular_packages = <<>>

\* more entries were asked for than the list holds
C7_Witness ==
    /\ pc = "top_done"
    /\ top_n > Len(popular_packages_list)
    /\ popular_packages = popular_packages_list

\* a line is skipped when it is empty after trimming or its first character
\* that is not whitespace is "#"
SkippedLine(line) == strip(line) = <<>> \/ strip(line)[1] = "#"

RECURSIVE NotSkipped(_)
NotSkipped(lines) ==
    IF lines = <<>> THEN <<>>
    ELSE (IF SkippedLine(Head(lines)) THEN <<>> ELSE <<Head(lines)>>)
             \o NotSkipped(Tail(lines))

\* C8 as claimed: the dependencies are one per line that is neither empty
\* after trimming nor a comment (also an indented one), in manifest order
C8_CommentAndBlankLinesSkipped ==
    pc = "parse_done" =>
        LET kept == NotSkipped(readlines(file.content))
        IN  /\ Len(dependencies) = Len(kept)
            /\ \A k \in 1..Len(kept) : dependencies[k] = dependency_name(kept[k])

HasEqEq(s) == \E k \in 1..(Len(s) - 1) : s[k] = "=" /\ s[k + 1] = "="

\* C9 as claimed: every dependency name is free of leading and trailing
\* whitespace and holds no "=="
C9_NamesAreTrimmed ==
    pc = "parse_done" =>
        \A k \in 1..Len(dependencies) :
            /\ dependencies[k] = strip(dependencies[k])
            /\ ~HasEqEq(dependencies[k])

NumpyRun ==
    /\ pc = "done"
    /\ file = [status |-> "ok", content |-> Numpy \o <<"\n">>]
    /\ args = [threshold |-> [num |-> 4, den |-> 5], top_packages |-> 20]

\* C10 as claimed: a manifest holding only numpy, threshold 0.8, 20 reference
\* packages: the output is the no-risks line
C10_NumpyPrintsNoRisks == NumpyRun => stdout = <<NoRisksLine>>

\* C10: for that run the output is the header followed by the one finding
\* that pairs numpy with the reference entry numpy at similarity 1.00
C10_NumpyReportsItself ==
    NumpyRun =>
        stdout = << HeaderLine,
                    <<"  Dependency: ">> \o Numpy \o <<", Similar to: ">>
                        \o Numpy \o <<", Similarity: ", "1", ".", "0", "0">> >>

\* the run on the manifest that holds only numpy has finished
C10_Witness == NumpyRun /\ Len(typosquatting_risks) = 1 /\ sim_calls = 20

====
